---- MODULE Spec2Model ----
(***************************************************************************)
(* The stub DNS resolver of libmobile (dns.c): dns_make_name,              *)
(* dns_compare_name, dns_make_query, dns_verify_response, dns_get_answer,  *)
(* mobile_dns_init, mobile_dns_query_send and mobile_dns_query_recv.       *)
(*                                                                         *)
(* Bytes are integers 0..255.  The arrays state->name and state->buffer    *)
(* are functions over 0-based indices, as in the C source.  A host name    *)
(* given to mobile_dns_query_send is a sequence of character codes.        *)
(* Of state->buffer the model keeps the bytes below buffer_len, the part   *)
(* the last query or datagram wrote.  The parsing operators return in rd   *)
(* the highest index they read in state->buffer and in state->name.        *)
(* int and unsigned are taken to be at least 32 bits wide, so that the     *)
(* only arithmetic that wraps is the 16-bit transaction id.                *)
(***************************************************************************)
EXTENDS Integers, Sequences, FiniteSets, TLC

VARIABLES
    id,          \* state->id
    type,        \* state->type
    name,        \* state->name[MOBILE_DNS_MAX_NAME_SIZE]
    name_len,    \* state->name_len
    buffer,      \* state->buffer[0 .. buffer_len - 1]
    buffer_len,  \* state->buffer_len
    op,          \* the last public operation that ran
    host,        \* the host argument of the last mobile_dns_query_send
    ret,         \* the return value of the last operation (booleans as 1 / 0)
    ip,          \* the caller's 4-byte output of the last mobile_dns_query_recv
    hung,        \* TRUE when the last operation never returns
    io,          \* board calls made by the last operation
    dgram        \* what mobile_board_sock_recv delivered to the last recv

vars == <<id, type, name, name_len, buffer, buffer_len, op, host, ret, ip, hung, io, dgram>>

dns_state == <<id, type, name, name_len, buffer, buffer_len>>

(***************************************************************************)
(* Program constants.                                                      *)
(***************************************************************************)
DNS_HEADER_SIZE == 12
DNS_QD_SIZE == 4
DNS_RR_SIZE == 10
DNS_PORT == 53
DNS_QTYPE_A == 1
DNS_QTYPE_AAAA == 28
MaxLabel == 63

\* state->id is a 16-bit unsigned field: it wraps at 2^16.
IdModulus == 65536

\* Sizes of state->name and state->buffer.  dns.h sets them; the model uses
\* small stand-ins that still let a 63-byte label and a name of exactly the
\* maximum size occur.
MOBILE_DNS_MAX_NAME_SIZE == 70
MOBILE_DNS_PACKET_SIZE == 96

(***************************************************************************)
(* Bounds of the model.                                                    *)
(***************************************************************************)
\* mobile_dns_query_send is offered while state->id < MaxSends (Spec only).
MaxSends == 2
\* Answer records placed in a generated datagram.
MaxRecords == 2

Dot == 46
NoIp == <<>>
NoDgram == [recv |-> 0, from |-> "none", len |-> 0]

Byte == 0..255
Hi(x) == (x \div 256) % 256
Lo(x) == x % 256
U16(a, b) == a * 256 + b

\* The state object as a record, for the operators that take `state`.
State == [id |-> id, type |-> type, name |-> name, name_len |-> name_len,
          buffer |-> buffer, buffer_len |-> buffer_len]

\* A sequence of bytes as a 0-based array.
Arr(s) == [i \in 0..(Len(s) - 1) |-> s[i + 1]]

\* The bytes arr[from .. from + n - 1] as a sequence.
Peek(arr, from, n) == [k \in 1..n |-> arr[from + k - 1]]

Max(a, b) == IF a >= b THEN a ELSE b

\* The highest index read so far in state->buffer (b) and in state->name
\* (n); -1 when nothing was read.
NoReads == [b |-> -1, n |-> -1]
ReadBuf(rd, i) == [rd EXCEPT !.b = Max(@, i)]
ReadName(rd, i) == [rd EXCEPT !.n = Max(@, i)]
MaxRd(r1, r2) == [b |-> Max(r1.b, r2.b), n |-> Max(r1.n, r2.n)]

\* The byte the code reads at state->buffer[i].  Past the received bytes
\* the array holds what earlier calls left there, which the model does not
\* keep; such a read is recorded by ReadBuf like any other.
ByteAt(st, i) == IF i \in DOMAIN st.buffer THEN st.buffer[i] ELSE 0

(***************************************************************************)
(* dns_make_name.                                                          *)
(*                                                                         *)
(* The state of the for loop is [ok, name, d, len]: ok is FALSE once the   *)
(* function has returned false, name is state->name, d and len are the     *)
(* two cursors as indices into it.                                         *)
(***************************************************************************)
\* Faulty variant: the name is taken as full one byte late.
name_full_late(d, size) == d >= size

\* d - state->name >= MOBILE_DNS_MAX_NAME_SIZE - 1
name_full(d, size) == d >= size - 1

\* Faulty variant: a label is taken as full one byte early.
label_full_early(count) == count >= MaxLabel - 1

\* *len >= 63
label_full(count) == count >= MaxLabel

\* One iteration of the loop, for the character c.
make_name_step(s, c, size) ==
    IF ~s.ok THEN s
    ELSE IF name_full(s.d, size) THEN [s EXCEPT !.ok = FALSE]
    ELSE IF c = Dot
    THEN [ok |-> TRUE, name |-> [s.name EXCEPT ![s.d] = 0],
          d |-> s.d + 1, len |-> s.d]
    ELSE IF label_full(s.name[s.len]) THEN [s EXCEPT !.ok = FALSE]
    ELSE [ok |-> TRUE,
          name |-> [s.name EXCEPT ![s.d] = c, ![s.len] = s.name[s.len] + 1],
          d |-> s.d + 1, len |-> s.len]

\* The iterations for the characters h[i] .. h[j], in order.
RECURSIVE make_name_loop(_, _, _, _, _)
make_name_loop(s, h, i, j, size) ==
    IF i > j THEN s
    ELSE IF i = j THEN make_name_step(s, h[i], size)
    ELSE LET mid  == (i + j) \div 2
             left == make_name_loop(s, h, i, mid, size)
         IN  IF ~left.ok THEN left
             ELSE make_name_loop(left, h, mid + 1, j, size)

\* Result: [ok, st].
dns_make_name(st, h) ==
    LET s0 == [ok |-> TRUE, name |-> [st.name EXCEPT ![0] = 0], d |-> 1, len |-> 0]
        s  == make_name_loop(s0, h, 1, Len(h), MOBILE_DNS_MAX_NAME_SIZE)
    IN  IF ~s.ok
        THEN [ok |-> FALSE, st |-> [st EXCEPT !.name = s.name]]
        ELSE [ok |-> TRUE,
              st |-> [st EXCEPT !.name = [s.name EXCEPT ![s.d] = 0],
                                !.name_len = s.d + 1]]

\* Faulty variant of dns_make_query: the header is written before the id
\* is incremented.
dns_make_query_stale_id(st, qtype) ==
    LET nid == (st.id + 1) % 65536
        hdr == <<Hi(st.id), Lo(st.id), 1, 0, 0, 1, 0, 0, 0, 0, 0, 0>>
        qd  == <<Hi(qtype), Lo(qtype), 0, 1>>
    IN  [st EXCEPT !.id = nid, !.type = qtype,
                   !.buffer = Arr(hdr \o Peek(st.name, 0, st.name_len) \o qd),
                   !.buffer_len = 12 + st.name_len + 4]

(***************************************************************************)
(* dns_make_query                                                          *)
(***************************************************************************)
dns_make_query(st, qtype) ==
    LET nid == (st.id + 1) % IdModulus
        hdr == <<Hi(nid), Lo(nid), 1, 0, 0, 1, 0, 0, 0, 0, 0, 0>>
        qd  == <<Hi(qtype), Lo(qtype), 0, 1>>
    IN  [st EXCEPT !.id = nid, !.type = qtype,
                   !.buffer = Arr(hdr \o Peek(st.name, 0, st.name_len) \o qd),
                   !.buffer_len = DNS_HEADER_SIZE + st.name_len + DNS_QD_SIZE]

(***************************************************************************)
(* mobile_dns_init                                                         *)
(***************************************************************************)
mobile_dns_init(st) == [st EXCEPT !.id = 0]

(***************************************************************************)
(* mobile_dns_query_send.  sendok is what mobile_board_sock_send returns.  *)
(* Result: [ret, st, io] with io the board calls made: the number of      *)
(* mobile_board_sock_send and mobile_board_sock_close calls, and in ok     *)
(* what the last mobile_board_sock_send returned.                          *)
(***************************************************************************)
\* Faulty variant: a failed send is tried a second time before closing.
mobile_dns_query_send_retry(st, h, sendok) ==
    LET mn == dns_make_name(st, h) IN
    IF ~mn.ok
    THEN [ret |-> 0, st |-> mn.st, io |-> [send |-> 0, close |-> 0, ok |-> FALSE]]
    ELSE LET q == dns_make_query(mn.st, DNS_QTYPE_A) IN
         IF ~sendok
         THEN [ret |-> 0, st |-> q, io |-> [send |-> 2, close |-> 1, ok |-> FALSE]]
         ELSE [ret |-> 1, st |-> q, io |-> [send |-> 1, close |-> 0, ok |-> TRUE]]

mobile_dns_query_send(st, h, sendok) ==
    LET mn == dns_make_name(st, h) IN
    IF ~mn.ok
    THEN [ret |-> 0, st |-> mn.st, io |-> [send |-> 0, close |-> 0, ok |-> FALSE]]
    ELSE LET q == dns_make_query(mn.st, DNS_QTYPE_A) IN
         IF ~sendok
         THEN [ret |-> 0, st |-> q, io |-> [send |-> 1, close |-> 1, ok |-> FALSE]]
         ELSE [ret |-> 1, st |-> q, io |-> [send |-> 1, close |-> 0, ok |-> TRUE]]

(***************************************************************************)
(* dns_compare_name.                                                       *)
(*                                                                         *)
(* Result: [hung, ret, offset, rd].  hung is TRUE when the for (;;) never  *)
(* exits: the loop is deterministic and an iteration changes only cmp and  *)
(* name (and sets end once), so it runs forever exactly when an iteration  *)
(* starts with a pair (cmp, name) that an earlier iteration started with.  *)
(***************************************************************************)
\* (*cmp & 0xC0) >> 6
TopBits(b) == b \div 64

\* unsigned off = (cmp[0] & 0x3F) << 8 | cmp[1]
pointer_target(buf, cmp) == (buf[cmp] % 64) * 256 + buf[cmp + 1]

\* Faulty variant: only the length byte of the label is compared.
label_differs_length_only(buf, cmp, nm, n, len) == buf[cmp] # nm[n]

\* while (len--) { if (*cmp++ != *name++) return -1; }
label_differs(buf, cmp, nm, n, len) ==
    \E k \in 0..(len - 1) : buf[cmp + k] # nm[n + k]

\* Faulty variant: every pointer followed sets end.
pointer_end_every(end, cmp) == cmp + 2

\* end < 0 ? position + 2 : end    (the first pointer sets end)
pointer_end(end, cmp) == IF end < 0 THEN cmp + 2 ELSE end

\* Faulty variant: a label may end at the last received byte.
label_past_buffer_late(st, cmp, len) == cmp + len > st.buffer_len

\* cmp - state->buffer + len >= state->buffer_len
label_past_buffer(st, cmp, len) == cmp + len >= st.buffer_len

\* The number of iterations of while (len--) that read a pair of bytes: up
\* to and including the first pair that differs.
label_pairs_read(st, cmp, n, len) ==
    LET diff == { k \in 0..(len - 1) : ByteAt(st, cmp + k) # st.name[n + k] } IN
    IF diff = {} THEN len
    ELSE 1 + CHOOSE k \in diff : \A j \in diff : k <= j

\* Faulty variant: a mismatch returns 0, as the branch of line 81 does.
CmpFail_returns_0(offset, rd) ==
    [hung |-> FALSE, ret |-> 0, offset |-> offset, rd |-> rd]

\* return -1, with *offset as it was
CmpFail(offset, rd) == [hung |-> FALSE, ret |-> -1, offset |-> offset, rd |-> rd]

\* rd0 holds the reads made before this iteration.
RECURSIVE compare_loop(_, _, _, _, _, _, _)
compare_loop(st, offset, cmp, n, end, seen, rd0) ==
    LET b  == ByteAt(st, cmp)
        rd == ReadBuf(rd0, cmp)
    IN
    IF <<cmp, n>> \in seen
    THEN [hung |-> TRUE, ret |-> 0, offset |-> offset, rd |-> rd]
    ELSE IF b = 0
    THEN \* break; then the checks after the loop
         IF st.name[n] # 0
         THEN CmpFail(offset, ReadName(rd, n))
         ELSE [hung |-> FALSE, ret |-> 0,
               offset |-> IF end < 0 THEN cmp + 1 ELSE end,
               rd |-> ReadName(rd, n)]
    ELSE IF TopBits(b) = 3
    THEN IF cmp + 2 > st.buffer_len
         THEN CmpFail(offset, rd)
         ELSE LET off == pointer_target(st.buffer, cmp) IN
              IF off >= st.buffer_len
              THEN CmpFail(offset, ReadBuf(rd, cmp + 1))
              ELSE compare_loop(st, offset, off, n, pointer_end(end, cmp),
                                seen \cup {<<cmp, n>>}, ReadBuf(rd, cmp + 1))
    ELSE IF TopBits(b) = 0
    THEN LET len  == b + 1
             prs  == label_pairs_read(st, cmp, n, len)
             rdl  == ReadName(ReadBuf(rd, cmp + prs - 1), n + prs - 1)
         IN
         IF n + len >= st.name_len THEN CmpFail(offset, rd)
         ELSE IF label_past_buffer(st, cmp, len) THEN CmpFail(offset, rd)
         ELSE IF label_differs(st.buffer, cmp, st.name, n, len)
         THEN CmpFail(offset, rdl)
         ELSE compare_loop(st, offset, cmp + len, n + len, end,
                           seen \cup {<<cmp, n>>}, rdl)
    ELSE [hung |-> FALSE, ret |-> 0, offset |-> offset, rd |-> rd]

\* Result: [hung, ret, offset, rd].
dns_compare_name(st, offset) ==
    IF offset >= st.buffer_len
    THEN [hung |-> FALSE, ret |-> 0, offset |-> offset, rd |-> NoReads]
    ELSE IF st.name_len = 0
    THEN [hung |-> FALSE, ret |-> 0, offset |-> offset, rd |-> NoReads]
    ELSE compare_loop(st, offset, offset, 0, -1, {}, NoReads)

(***************************************************************************)
(* dns_verify_response.  Result: [hung, ret, offset, rd]; offset is the    *)
(* caller's uninitialised variable until the question has been verified,   *)
(* which the model writes as -1 (the caller never reads it then).          *)
(***************************************************************************)
\* Faulty variant: the mask 0xF9FF, which clears the truncation bit too.
MaskFlags_clears_tc(flags) ==
    flags - ((flags \div 1024) % 2) * 1024 - ((flags \div 512) % 2) * 512

\* flags & 0xFBFF: bit 10 (0x0400) is cleared
MaskFlags(flags) == flags - ((flags \div 1024) % 2) * 1024

\* (flags & 0xFBFF) != 0x8180
flags_bad(flags) == MaskFlags(flags) # 33152

\* Faulty variant: only the low byte of the id is compared.
id_differs_low_byte(st) == st.buffer[1] # Lo(st.id)

\* (unsigned)(state->buffer[0] << 8 | state->buffer[1]) != state->id
id_differs(st) == U16(st.buffer[0], st.buffer[1]) # st.id

VerFail(code, rd) == [hung |-> FALSE, ret |-> code, offset |-> -1, rd |-> rd]

\* The question section: c is what dns_compare_name returned for the name
\* at DNS_HEADER_SIZE, rd the reads so far.
verify_question(st, ancount, c, rd) ==
    IF c.hung THEN [hung |-> TRUE, ret |-> 0, offset |-> -1, rd |-> rd]
    ELSE IF c.ret # 0 \/ c.offset + DNS_QD_SIZE > st.buffer_len
    THEN VerFail(-19, rd)
    ELSE IF U16(st.buffer[c.offset], st.buffer[c.offset + 1]) # st.type
    THEN VerFail(-19, ReadBuf(rd, c.offset + 1))
    ELSE IF U16(st.buffer[c.offset + 2], st.buffer[c.offset + 3]) # 1
    THEN VerFail(-19, ReadBuf(rd, c.offset + 3))
    ELSE [hung |-> FALSE, ret |-> ancount,
          offset |-> c.offset + DNS_QD_SIZE,
          rd |-> ReadBuf(rd, c.offset + 3)]

\* The flags and the counts, once the id matched.
verify_header(st, flags, qdcount, ancount, c) ==
    IF flags_bad(flags) THEN VerFail(-2 - (flags % 16), ReadBuf(NoReads, 3))
    ELSE IF qdcount # 1 THEN VerFail(-18, ReadBuf(NoReads, 7))
    ELSE IF ancount < 1 THEN VerFail(-18, ReadBuf(NoReads, 7))
    ELSE verify_question(st, ancount, c, ReadBuf(c.rd, 7))

\* Result: [hung, ret, offset, rd].
dns_verify_response(st) ==
    IF st.buffer_len < DNS_HEADER_SIZE THEN VerFail(-1, NoReads)
    ELSE IF id_differs(st) THEN VerFail(-1, ReadBuf(NoReads, 1))
    ELSE verify_header(st, U16(st.buffer[2], st.buffer[3]),
                       U16(st.buffer[4], st.buffer[5]),
                       U16(st.buffer[6], st.buffer[7]),
                       dns_compare_name(st, DNS_HEADER_SIZE))

(***************************************************************************)
(* dns_get_answer.  Result: [hung, ret, offset, rd].                       *)
(***************************************************************************)
\* Faulty variant: only an RDLENGTH below the size of the type is refused.
rdlength_bad_short_only(qtype, rdlength) ==
    \/ qtype = DNS_QTYPE_A /\ rdlength < 4
    \/ qtype = DNS_QTYPE_AAAA /\ rdlength < 16

\* state->type == DNS_QTYPE_A && rdlength != 4, and the same for AAAA / 16
rdlength_bad(qtype, rdlength) ==
    \/ qtype = DNS_QTYPE_A /\ rdlength # 4
    \/ qtype = DNS_QTYPE_AAAA /\ rdlength # 16

\* The info block at o and the tests on it: name_cmp is what
\* dns_compare_name returned, rd the reads so far.
answer_info(st, o, name_cmp, rdlength, rd) ==
    IF o + DNS_RR_SIZE + rdlength > st.buffer_len
    THEN [hung |-> FALSE, ret |-> -1, offset |-> o, rd |-> rd]
    ELSE IF \/ name_cmp # 0
            \/ U16(st.buffer[o], st.buffer[o + 1]) # st.type
            \/ U16(st.buffer[o + 2], st.buffer[o + 3]) # 1
            \/ rdlength_bad(st.type, rdlength)
    THEN [hung |-> FALSE, ret |-> -2, offset |-> o + DNS_RR_SIZE + rdlength,
          rd |-> rd]
    ELSE [hung |-> FALSE, ret |-> o + DNS_RR_SIZE,
          offset |-> o + DNS_RR_SIZE + rdlength, rd |-> rd]

\* c is what dns_compare_name returned for the name at offset.
answer_after_name(st, offset, c) ==
    IF c.hung THEN [hung |-> TRUE, ret |-> 0, offset |-> offset, rd |-> c.rd]
    ELSE IF c.offset + DNS_RR_SIZE > st.buffer_len
    THEN [hung |-> FALSE, ret |-> -1, offset |-> c.offset, rd |-> c.rd]
    ELSE answer_info(st, c.offset, c.ret,
                     U16(st.buffer[c.offset + 8], st.buffer[c.offset + 9]),
                     ReadBuf(c.rd, c.offset + 9))

\* Result: [hung, ret, offset, rd].
dns_get_answer(st, offset) ==
    answer_after_name(st, offset, dns_compare_name(st, offset))

(***************************************************************************)
(* mobile_dns_query_recv.                                                  *)
(*   d     what mobile_board_sock_recv does: d.recv its return value,      *)
(*         d.bytes the datagram it stores in state->buffer, d.from the     *)
(*         sender address it stores in addr_recv                           *)
(*   ipin  the caller's ip array before the call                           *)
(* Result: [hung, ret, st, ip, rd].                                        *)
(***************************************************************************)
\* The resolver address the adapter is configured with: type, port, host.
ResolverAddr == [type |-> "IPV4", port |-> DNS_PORT, host |-> "dns1"]

\* Faulty variant: the port of the sender is not compared.
sender_differs_no_port(from) ==
    \/ ResolverAddr.type # from.type
    \/ ResolverAddr.host # from.host

\* addr_send.type != addr_recv.type, or memcmp() over the mobile_addr4 differs
sender_differs(from) ==
    \/ ResolverAddr.type # from.type
    \/ ResolverAddr # from

\* The while (ancount--) loop; the result's ret is what the function
\* returns, rd holds the reads made before this iteration.  answer_step is
\* the body of the loop, a what dns_get_answer returned.
RECURSIVE answer_loop(_, _, _, _, _)
RECURSIVE answer_step(_, _, _, _, _)
answer_step(st, ancount, ipin, rd, a) ==
    IF a.hung
    THEN [hung |-> TRUE, ret |-> 0, ip |-> ipin, rd |-> MaxRd(rd, a.rd)]
    ELSE IF a.ret < -1
    THEN answer_loop(st, ancount - 1, a.offset, ipin, MaxRd(rd, a.rd))
    ELSE IF a.ret = -1
    THEN [hung |-> FALSE, ret |-> -1, ip |-> ipin, rd |-> MaxRd(rd, a.rd)]
    ELSE [hung |-> FALSE, ret |-> 1, ip |-> Peek(st.buffer, a.ret, 4),
          rd |-> ReadBuf(MaxRd(rd, a.rd), a.ret + 3)]

answer_loop(st, ancount, offset, ipin, rd) ==
    IF ancount = 0
    THEN [hung |-> FALSE, ret |-> 1, ip |-> ipin, rd |-> rd]
    ELSE answer_step(st, ancount, ipin, rd, dns_get_answer(st, offset))

\* After the loop returned r.
recv_scanned(s1, r) ==
    [hung |-> r.hung, ret |-> r.ret, st |-> s1, ip |-> r.ip, rd |-> r.rd]

\* After dns_verify_response returned v for the datagram stored in s1.
recv_verified(s1, ipin, v) ==
    IF v.hung
    THEN [hung |-> TRUE, ret |-> 0, st |-> s1, ip |-> ipin, rd |-> v.rd]
    ELSE IF v.ret < 0
    THEN [hung |-> FALSE, ret |-> -1, st |-> s1, ip |-> ipin, rd |-> v.rd]
    ELSE recv_scanned(s1, answer_loop(s1, v.ret, v.offset, ipin, v.rd))

\* After mobile_board_sock_recv stored a datagram: s1 is the state with it.
recv_stored(s1, d, ipin) ==
    IF sender_differs(d.from)
    THEN [hung |-> FALSE, ret |-> 0, st |-> s1, ip |-> ipin, rd |-> NoReads]
    ELSE recv_verified(s1, ipin, dns_verify_response(s1))

\* Result: [hung, ret, st, ip, rd].
mobile_dns_query_recv(st, d, ipin) ==
    IF d.recv <= 0
    THEN [hung |-> FALSE, ret |-> d.recv, st |-> st, ip |-> ipin, rd |-> NoReads]
    ELSE recv_stored([st EXCEPT !.buffer = Arr(d.bytes), !.buffer_len = d.recv],
                     d, ipin)

(***************************************************************************)
(* The environment: host names given to send, and datagrams delivered by   *)
(* mobile_board_sock_recv.                                                 *)
(***************************************************************************)
Run(c, n) == [k \in 1..n |-> c]

\* Hosts of Spec: "a.b" and "c".
Hosts == { <<97, Dot, 98>>, <<99>> }

\* Hosts of SpecSend: six that are encoded, a label of 64 bytes and a name
\* of two 63-byte labels, which are refused.
SendHosts ==
    Hosts \cup { <<97>>, <<97, 98>>, <<98, Dot, 99>>, <<97, Dot, 98, Dot, 99>>,
                 Run(97, MaxLabel + 1),
                 Run(97, MaxLabel) \o <<Dot>> \o Run(98, MaxLabel) }

\* Hosts of SpecName: up to three labels joined by dots; label k is a run
\* of the k-th letter; a length of 0 gives an empty label.
FirstLens == {0, 1, 2, MaxLabel - 1, MaxLabel, MaxLabel + 1}
SecondLens == 0..(MOBILE_DNS_MAX_NAME_SIZE - MaxLabel - 1)
ThirdLens == {0, 1}
NameHosts ==
    { Run(97, a) : a \in FirstLens }
    \cup { Run(97, a) \o <<Dot>> \o Run(98, b) :
             a \in FirstLens, b \in SecondLens }
    \cup { Run(97, a) \o <<Dot>> \o Run(98, b) \o <<Dot>> \o Run(99, c) :
             a \in FirstLens, b \in SecondLens, c \in ThirdLens }

\* Hosts of SpecId.
IdHosts == { <<97>> }

\* The stored wire name as a sequence of bytes.
WireName(st) == Peek(st.name, 0, st.name_len)

\* Flags fields of generated responses: the accepted pattern 0x8180, the
\* same with AA, then RCODE 3 and 2, TC, no RA, no QR, opcode 1, the
\* three bits of the zero area, and no RD.
FlagValues == {33152, 34176, 33155, 33154, 33664, 33024, 384, 35200,
               33184, 33168, 33216, 32896}

Ptr(off) == <<192 + Hi(off), Lo(off)>>

\* Forms of a question name, given the stored wire name N.
QNameKinds == {"echo", "selfptr", "cycle2", "badname", "badlen", "extralabel",
               "firstlabel", "noterm", "reserved", "outptr"}
QName(kind, N) ==
    CASE kind = "echo"       -> N
      [] kind = "selfptr"    -> Ptr(DNS_HEADER_SIZE)
      [] kind = "cycle2"     -> Ptr(DNS_HEADER_SIZE + 2) \o Ptr(DNS_HEADER_SIZE)
      [] kind = "badname"    -> [N EXCEPT ![Len(N) - 1] = (@ + 1) % 256]
      [] kind = "badlen"     -> [N EXCEPT ![1] = @ + 1]
      [] kind = "extralabel" -> SubSeq(N, 1, Len(N) - 1) \o <<1, 120, 0>>
      [] kind = "firstlabel" -> SubSeq(N, 1, N[1] + 1) \o <<0>>
      [] kind = "noterm"     -> SubSeq(N, 1, Len(N) - 1)
      [] kind = "reserved"   -> [N EXCEPT ![1] = @ + 64]
      [] kind = "outptr"     -> Ptr(255)

QTailKinds == {"A_IN", "AAAA_IN", "A_CH", "none"}
QTail(kind) ==
    CASE kind = "A_IN"    -> <<0, DNS_QTYPE_A, 0, 1>>
      [] kind = "AAAA_IN" -> <<0, DNS_QTYPE_AAAA, 0, 1>>
      [] kind = "A_CH"    -> <<0, DNS_QTYPE_A, 0, 3>>
      [] kind = "none"    -> <<>>

\* Forms of an answer record: owner name, type, class, RDLENGTH.
Rec(nm, t, c, len) == [nm |-> nm, t |-> t, c |-> c, len |-> len]
GoodRec == Rec("ptr", 1, 1, 4)
\* Forms that are combined freely.
RecKinds == {
    GoodRec,
    Rec("lit", 1, 1, 4),
    Rec("chain", 1, 1, 4),
    Rec("ptr", 1, 1, 3),
    Rec("ptr", 5, 1, 2),
    Rec("bad", 1, 1, 4),
    Rec("reserved", 1, 1, 4) }
\* Forms that come alone or before a GoodRec.
EdgeKinds == {
    Rec("litptr", 1, 1, 4),
    Rec("badlen", 1, 1, 4),
    Rec("infolike", 1, 1, 4),
    Rec("ptr", 1, 1, 5),
    Rec("ptr", 1, 3, 4),
    Rec("ptr", 28, 1, 16) }

\* The owner name of a record: first is the offset of the first record.
RName(kind, N, first) ==
    CASE kind = "ptr"      -> Ptr(DNS_HEADER_SIZE)
      [] kind = "lit"      -> N
      [] kind = "chain"    -> Ptr(first)
      [] kind = "litptr"   -> SubSeq(N, 1, N[1] + 1) \o Ptr(DNS_HEADER_SIZE + N[1] + 1)
      [] kind = "bad"      -> [N EXCEPT ![Len(N) - 1] = (@ + 1) % 256]
      [] kind = "badlen"   -> [N EXCEPT ![1] = @ + 1]
      [] kind = "reserved" -> [N EXCEPT ![1] = @ + 64]
      [] kind = "infolike" -> <<>>

\* The RDATA of the k-th record: bytes that tell the records apart.
RData(k, len) == [j \in 1..len |-> 16 * k + j]

RecBytes(r, k, N, first) ==
    RName(r.nm, N, first)
    \o <<Hi(r.t), Lo(r.t), Hi(r.c), Lo(r.c), 0, 0, 0, 60, Hi(r.len), Lo(r.len)>>
    \o RData(k, r.len)

RECURSIVE RecsBytes(_, _, _, _)
RecsBytes(recs, k, N, first) ==
    IF k > Len(recs) THEN <<>>
    ELSE RecBytes(recs[k], k, N, first) \o RecsBytes(recs, k + 1, N, first)

RecLists ==
    UNION { [1..n -> RecKinds] : n \in 0..MaxRecords }
    \cup { <<e>> : e \in EdgeKinds }
    \cup { <<e, GoodRec>> : e \in EdgeKinds }

Header(idv, flags, qd, an) ==
    <<Hi(idv), Lo(idv), Hi(flags), Lo(flags), Hi(qd), Lo(qd), Hi(an), Lo(an),
      0, 0, 0, 0>>

\* The shape of a response: idd is added to the outstanding id, cut is the
\* number of bytes missing at the end.
Shape(idd, flags, qd, an, qn, qt, recs, cut) ==
    [idd |-> idd, flags |-> flags, qd |-> qd, an |-> an, qn |-> qn, qt |-> qt,
     recs |-> recs, cut |-> cut]

\* The bytes of a response of shape sh to the query in st.
Question(sh, st) == QName(sh.qn, WireName(st)) \o QTail(sh.qt)
FirstRecordAt(sh, st) == DNS_HEADER_SIZE + Len(Question(sh, st))
ShapeBytes(sh, st) ==
    LET N   == WireName(st)
        q   == QName(sh.qn, N) \o QTail(sh.qt)
        all == Header((st.id + sh.idd) % IdModulus, sh.flags, sh.qd, sh.an)
               \o q
               \o RecsBytes(sh.recs, 1, N, DNS_HEADER_SIZE + Len(q))
    IN  SubSeq(all, 1, Len(all) - sh.cut)

\* Responses that vary the header over a well-formed body.
HeaderShapes ==
    { Shape(idd, f, qd, an, "echo", "A_IN", <<GoodRec>>, 0) :
        idd \in {0, 1, 256}, f \in FlagValues, qd \in {0, 1, 2}, an \in {0, 1} }

\* Responses that vary the question.
QuestionShapes ==
    { Shape(idd, 33152, 1, 1, qn, qt, recs, 0) :
        idd \in {0, 1}, qn \in QNameKinds, qt \in QTailKinds,
        recs \in {<<>>, <<GoodRec>>} }

\* Responses that vary the answer records, with the declared count equal
\* to their number or one more, with the last byte missing, or with
\* another id.
RecordShapes ==
    { Shape(0, 33152, 1, Len(recs) + more, "echo", "A_IN", recs, 0) :
        recs \in RecLists, more \in {0, 1} }
    \cup { Shape(idd, 33152, 1, Len(recs), "echo", "A_IN", recs, 1 - idd) :
             recs \in RecLists, idd \in {0, 1} }

\* Responses with one acceptable record, cut short at every length.
CutShapes ==
    { Shape(0, 33152, 1, 1, "echo", "A_IN", <<r>>, cut) :
        r \in {GoodRec, Rec("lit", 1, 1, 4), Rec("litptr", 1, 1, 4)},
        cut \in 2..MOBILE_DNS_PACKET_SIZE }

Shapes == HeaderShapes \cup QuestionShapes \cup RecordShapes \cup CutShapes

\* Contents of datagrams that arrive from other senders.
StrayShapes ==
    { Shape(0, 33152, 1, 1, "echo", "A_IN", <<GoodRec>>, 0),
      Shape(0, 33152, 1, 1, "selfptr", "A_IN", <<GoodRec>>, 0) }

\* Sender addresses other than the resolver's: another address type,
\* another port, another host.
OtherSenders ==
    { [type |-> "IPV6", port |-> DNS_PORT, host |-> "dns1"],
      [type |-> "IPV4", port |-> DNS_PORT + 1, host |-> "dns1"],
      [type |-> "IPV4", port |-> DNS_PORT, host |-> "other"] }

\* What mobile_board_sock_recv delivers: a datagram of shape sh from `from`.
Delivery(sh, from, st) ==
    LET b == ShapeBytes(sh, st) IN
    [recv |-> Len(b), from |-> from, bytes |-> b, shape |-> sh]

\* mobile_board_sock_recv stores at most MOBILE_DNS_PACKET_SIZE bytes.
Deliverable(d) == d.recv >= 1 /\ d.recv <= MOBILE_DNS_PACKET_SIZE

(***************************************************************************)
(* The state machine.                                                      *)
(***************************************************************************)
NoIo == [send |-> 0, close |-> 0, ok |-> FALSE]

Init ==
    /\ id = mobile_dns_init([id |-> 0]).id
    /\ type = 0
    /\ name = [i \in 0..(MOBILE_DNS_MAX_NAME_SIZE - 1) |-> 0]
    /\ name_len = 0
    /\ buffer = <<>>
    /\ buffer_len = 0
    /\ op = "init"
    /\ host = <<>>
    /\ ret = 0
    /\ ip = NoIp
    /\ hung = FALSE
    /\ io = NoIo
    /\ dgram = NoDgram

SetState(st) ==
    /\ id' = st.id
    /\ type' = st.type
    /\ name' = st.name
    /\ name_len' = st.name_len
    /\ buffer' = st.buffer
    /\ buffer_len' = st.buffer_len

\* A call of mobile_dns_query_send(adapter, conn, h, Len(h)).
Send(h, sendok) ==
    /\ ~hung
    /\ \E r \in {mobile_dns_query_send(State, h, sendok)} :
       /\ SetState(r.st)
       /\ ret' = r.ret
       /\ io' = r.io
    /\ op' = "send"
    /\ host' = h
    /\ ip' = NoIp
    /\ dgram' = NoDgram
    /\ UNCHANGED hung

\* A query is outstanding: the last send succeeded and no poll has ended it.
Outstanding == (op = "send" /\ ret = 1) \/ (op = "recv" /\ ret = 0)

\* A call of mobile_dns_query_recv(adapter, conn, ip) during which
\* mobile_board_sock_recv does d.
Recv(d) ==
    /\ ~hung
    /\ Outstanding
    /\ \E r \in {mobile_dns_query_recv(State, d, NoIp)} :
       /\ SetState(r.st)
       /\ ret' = r.ret
       /\ ip' = r.ip
       /\ hung' = r.hung
    /\ op' = "recv"
    /\ io' = NoIo
    /\ dgram' = d
    /\ UNCHANGED host

QuerySend == \E h \in Hosts, sendok \in BOOLEAN : id < MaxSends /\ Send(h, sendok)

RecvNothing == Recv([recv |-> 0, from |-> "none", len |-> 0])

RecvError == Recv([recv |-> -1, from |-> "none", len |-> 0])

RecvStray ==
    /\ Outstanding
    /\ \E sh \in StrayShapes, from \in OtherSenders :
          \E d \in {Delivery(sh, from, State)} : Deliverable(d) /\ Recv(d)

RecvResponse ==
    /\ Outstanding
    /\ \E sh \in Shapes :
          \E d \in {Delivery(sh, ResolverAddr, State)} : Deliverable(d) /\ Recv(d)

Next == QuerySend \/ RecvNothing \/ RecvError \/ RecvStray \/ RecvResponse

Spec == Init /\ [][Next]_vars

(***************************************************************************)
(* SpecName: dns_make_name applied once to each host of NameHosts.         *)
(***************************************************************************)
InitName ==
    /\ id = mobile_dns_init([id |-> 0]).id
    /\ type = 0
    /\ name = [i \in 0..(MOBILE_DNS_MAX_NAME_SIZE - 1) |-> 0]
    /\ name_len = 0
    /\ buffer = <<>>
    /\ buffer_len = 0
    /\ op = "init"
    /\ host \in NameHosts
    /\ ret = 0
    /\ ip = NoIp
    /\ hung = FALSE
    /\ io = NoIo
    /\ dgram = NoDgram

MakeName ==
    /\ op = "init"
    /\ \E r \in {dns_make_name(State, host)} :
         /\ SetState(r.st)
         /\ ret' = IF r.ok THEN 1 ELSE 0
    /\ op' = "make_name"
    /\ UNCHANGED <<host, ip, hung, io, dgram>>

NextName == MakeName

SpecName == InitName /\ [][NextName]_vars

(***************************************************************************)
(* SpecId: queries sent one after the other, through the wrap of the id.   *)
(***************************************************************************)
NextId == \E h \in IdHosts, sendok \in BOOLEAN : Send(h, sendok)

SpecId == Init /\ [][NextId]_vars

(***************************************************************************)
(* SpecSend: calls of mobile_dns_query_send alone, with hosts that are     *)
(* encoded and hosts that are refused, the send succeeding or failing.     *)
(***************************************************************************)
NextSend == \E h \in SendHosts, sendok \in BOOLEAN : id < MaxSends /\ Send(h, sendok)

SpecSend == Init /\ [][NextSend]_vars

(***************************************************************************)
(* Properties.                                                             *)
(***************************************************************************)
\* The last operation was a mobile_dns_query_recv that took a datagram.
Received == op = "recv" /\ dgram.recv > 0
FromResolver == Received /\ dgram.from = ResolverAddr
FromOther == Received /\ dgram.from # ResolverAddr

\* C1: name comparison during mobile_dns_query_recv terminates for every
\* datagram: a compression-pointer cycle makes the call return a failure,
\* it never keeps the call from returning.
C1_RecvReturns == ~hung

\* C2: mobile_dns_query_recv returns 1 only if an answer record was accepted
\* and its RDATA written to the output address; when no declared record
\* passes the filter it does not return 1.
C2_SuccessWritesAddress == (op = "recv" /\ ret = 1) => ip # NoIp

\* C3: a datagram from the resolver whose id field differs from the id of
\* the last query sent makes mobile_dns_query_recv return -1, whatever the
\* rest of it holds.
C3_IdMismatchFails ==
    (FromResolver /\ dgram.recv >= 2
        /\ U16(dgram.bytes[1], dgram.bytes[2]) # id)
    => (~hung /\ ret = -1 /\ ip = NoIp)

\* C3 happens: an otherwise valid answer with another id was refused.
C3_Witness ==
    /\ FromResolver
    /\ dgram.shape = Shape(256, 33152, 1, 1, "echo", "A_IN", <<GoodRec>>, 0)
    /\ id = 2
    /\ ret = -1

\* C4: when the sender of the datagram is not the resolver address on port
\* 53, or when no datagram is waiting, mobile_dns_query_recv returns 0,
\* whatever the datagram holds.
C4_OtherSenderPending ==
    ((op = "recv" /\ dgram.recv = 0) \/ FromOther) => (~hung /\ ret = 0 /\ ip = NoIp)

\* C4 happens: a valid answer arrived from the resolver's host on another
\* port and the call returned 0.
C4_Witness ==
    /\ FromOther
    /\ dgram.from = [type |-> "IPV4", port |-> DNS_PORT + 1, host |-> "dns1"]
    /\ dgram.shape = Shape(0, 33152, 1, 1, "echo", "A_IN", <<GoodRec>>, 0)
    /\ ret = 0

\* C5: the id in the header of every query built is the id of the query
\* before it (0 after init) plus 1 modulo 2^16, so two consecutive queries
\* differ in their id and the query after id 0xFFFF has id 0.
C5_IdIncrements ==
    [][LET new == U16(buffer'[0], buffer'[1]) IN
         /\ new = (id + 1) % 65536
         /\ id' = new
         /\ op = "send" =>
              LET old == U16(buffer[0], buffer[1]) IN
              /\ new # old
              /\ new = (old + 1) % 65536
              /\ old = 65535 => new = 0
      ]_vars

\* C5 happens: a query carrying id 0 has been built, which takes the wrap.
C5_Witness == op = "send" /\ buffer_len > 0 /\ buffer[0] = 0 /\ buffer[1] = 0

\* The labels of a host name: it is valid when it is not empty, does not
\* start or end with '.', has no two '.' in a row and no label over 63.
HasEmptyLabel(h) ==
    \/ Len(h) = 0
    \/ h[1] = Dot
    \/ \E i \in 1..(Len(h) - 1) : h[i] = Dot /\ h[i + 1] = Dot
HasLongLabel(h) ==
    \E i \in 1..(Len(h) - MaxLabel) : \A k \in i..(i + MaxLabel) : h[k] # Dot
ValidHost(h) ==
    /\ ~HasEmptyLabel(h)
    /\ h[Len(h)] # Dot
    /\ ~HasLongLabel(h)

\* The wire name in nm from index pos on is a chain of labels of 1..63
\* bytes whose zero terminator is the byte at index last.
RECURSIVE LabelsWellFormed(_, _, _)
LabelsWellFormed(nm, pos, last) ==
    IF pos >= last THEN pos = last /\ nm[pos] = 0
    ELSE nm[pos] \in 1..MaxLabel /\ LabelsWellFormed(nm, pos + 1 + nm[pos], last)

\* Decoding of a wire name: the labels from index pos up to the zero
\* terminator, joined with '.'; DecodedEnd is the index after the terminator.
RECURSIVE Decode(_, _)
Decode(nm, pos) ==
    IF nm[pos] = 0 THEN <<>>
    ELSE LET next == pos + 1 + nm[pos] IN
         Peek(nm, pos + 1, nm[pos])
         \o (IF nm[next] = 0 THEN <<>> ELSE <<Dot>> \o Decode(nm, next))
RECURSIVE DecodedEnd(_, _)
DecodedEnd(nm, pos) ==
    IF nm[pos] = 0 THEN pos + 1 ELSE DecodedEnd(nm, pos + 1 + nm[pos])

\* C6: dns_make_name fails for an empty host name and for one with an empty
\* label (a leading '.', two '.' in a row), so that after a success every
\* label of the stored name has 1..63 bytes.
C6_RejectsEmptyLabels ==
    op = "make_name" =>
        /\ HasEmptyLabel(host) => ret = 0
        /\ ret = 1 => LabelsWellFormed(name, 0, name_len - 1)

\* C7: for a valid host name whose encoding fits, dns_make_name succeeds,
\* name_len is the length of the host plus 2, and decoding the stored name
\* gives the host back.
C7_RoundTrip ==
    (op = "make_name" /\ ValidHost(host)
        /\ Len(host) + 2 <= MOBILE_DNS_MAX_NAME_SIZE)
    => /\ ret = 1
       /\ name_len = Len(host) + 2
       /\ DecodedEnd(name, 0) = name_len
       /\ Decode(name, 0) = host

\* C7 happens: a host of three labels, the first of 63 bytes, was encoded.
C7_Witness ==
    /\ op = "make_name"
    /\ ret = 1
    /\ host = Run(97, MaxLabel) \o <<Dot, 98, Dot, 99>>
    /\ ValidHost(host)

\* The shape of the datagram the last recv took, and what it says about
\* the bytes now in state->buffer.
Sh == dgram.shape
FlagsAccepted == Sh.flags \in {33152, 34176}
HeaderAccepted ==
    FromResolver /\ Sh.idd = 0 /\ FlagsAccepted /\ Sh.qd = 1 /\ Sh.an >= 1
QuestionEchoed == Sh.qn = "echo" /\ Sh.qt = "A_IN"
\* Offset of the k-th answer record after an echoed question.
RecStart(k) ==
    LET first == DNS_HEADER_SIZE + name_len + DNS_QD_SIZE IN
    first + Len(RecsBytes(SubSeq(Sh.recs, 1, k - 1), 1, WireName(State), first))
\* The owner name of the k-th record leads to the labels of the query name.
OwnerMatches(k) ==
    \/ Sh.recs[k].nm \in {"ptr", "lit", "litptr"}
    \/ Sh.recs[k].nm = "chain" /\ k > 1 /\ Sh.recs[1].nm \in {"ptr", "lit", "litptr"}
\* The k-th record passes the filter of a type A query.
Passing(k) ==
    /\ OwnerMatches(k)
    /\ Sh.recs[k].t = DNS_QTYPE_A
    /\ Sh.recs[k].c = 1
    /\ Sh.recs[k].len = 4

C9_BadRdlengthSkipped ==
    (HeaderAccepted /\ QuestionEchoed /\ Sh.cut = 0 /\ Len(Sh.recs) >= 1
        /\ Sh.recs[1].nm \in {"ptr", "lit", "litptr"}
        /\ Sh.recs[1].t = DNS_QTYPE_A /\ Sh.recs[1].c = 1 /\ Sh.recs[1].len # 4)
    => /\ LET a == dns_get_answer(State, RecStart(1)) IN
          ~a.hung /\ a.ret = -2 /\ a.offset = RecStart(2)
       /\ ip = NoIp \/ ip # Peek(RData(1, 16), 1, 4)
       /\ \A k \in 2..Len(Sh.recs) :
             (k <= Sh.an /\ Passing(k)
                /\ \A j \in 1..(k - 1) : OwnerMatches(j) /\ ~Passing(j))
             => (~hung /\ ret = 1 /\ ip = RData(k, 4))

\* C9 happens: a type A record of RDLENGTH 3 was passed over and the
\* record after it gave the address.
C9_Witness ==
    /\ HeaderAccepted
    /\ Sh = Shape(0, 33152, 1, 2, "echo", "A_IN", <<Rec("ptr", 1, 1, 3), GoodRec>>, 0)
    /\ ret = 1
    /\ ip = RData(2, 4)

\* C10: after a successful send, a datagram from the resolver with the same
\* id, accepted flags, qdcount 1, the question echoed and, among the
\* declared answer records, a first one that passes the filter (type A,
\* class IN, RDLENGTH 4) makes mobile_dns_query_recv return 1 with the
\* output address equal to the 4 RDATA bytes of that record.
C10_FirstPassingRecordWins ==
    (HeaderAccepted /\ QuestionEchoed /\ Sh.cut = 0) =>
        \A k \in 1..Len(Sh.recs) :
            (k <= Sh.an /\ Passing(k) /\ \A j \in 1..(k - 1) : ~Passing(j))
            => (~hung /\ ret = 1 /\ ip = RData(k, 4))

\* C11: mobile_dns_query_send calls mobile_board_sock_send at most once;
\* when that call fails it closes the connection exactly once and returns
\* false; when it succeeds it returns true and does not close; when the
\* name is refused nothing is sent or closed.
C11_SendOnceCloseOnFailure ==
    op = "send" =>
        /\ io.send <= 1
        /\ (io.send = 1 /\ ~io.ok) => (ret = 0 /\ io.close = 1)
        /\ (io.send = 1 /\ io.ok) => (ret = 1 /\ io.close = 0)
        /\ io.send = 0 => (ret = 0 /\ io.close = 0)
        /\ ret = 1 => (io.send = 1 /\ io.ok)

\* C11 happens: after a host that was refused, the send of the query for
\* "a.b" failed and the connection was closed.
C11_Witness ==
    /\ op = "send"
    /\ host = <<97, Dot, 98>>
    /\ name[5] = 97
    /\ io = [send |-> 1, close |-> 1, ok |-> FALSE]
    /\ ret = 0

\* C12: an answer record whose owner name does not match the query name is
\* skipped whole (name, info block, RDATA): the scan goes on at the start
\* of the next declared record, and when that one is a type A, class IN,
\* RDLENGTH 4 record for the query name the call returns 1 with its RDATA.
C12_NameMismatchSkipsRecord ==
    (HeaderAccepted /\ QuestionEchoed /\ Sh.cut = 0
        /\ Len(Sh.recs) = 2 /\ Sh.an = 2
        /\ Sh.recs[1].nm \in {"bad", "badlen"} /\ Passing(2))
    => /\ dns_get_answer(State, RecStart(1)).offset = RecStart(2)
       /\ ret = 1
       /\ ip = RData(2, 4)

\* C13: when the scan reaches, before any record was accepted, a record
\* whose info block or RDATA span (offset + 10 + RDLENGTH) goes past the
\* received length, mobile_dns_query_recv returns -1, also when the record
\* would only have been skipped.  The datagram here lacks its last byte,
\* so the RDATA of the last record goes past the received length.
C13_TruncatedRecordFails ==
    (HeaderAccepted /\ QuestionEchoed /\ Sh.cut = 1
        /\ Len(Sh.recs) >= 1 /\ Sh.an = Len(Sh.recs)
        /\ Sh.recs[Len(Sh.recs)].nm \in {"ptr", "lit", "litptr", "bad"}
        /\ \A j \in 1..(Len(Sh.recs) - 1) : OwnerMatches(j) /\ ~Passing(j))
    => ret = -1

\* The fields of the flags word of the datagram in state->buffer.
RecvFlags == U16(buffer[2], buffer[3])
FlagQR == RecvFlags \div 32768
FlagOpcode == (RecvFlags \div 2048) % 16
FlagTC == (RecvFlags \div 512) % 2
FlagRA == (RecvFlags \div 128) % 2
FlagZ == (RecvFlags \div 16) % 8
FlagRCODE == RecvFlags % 16
\* dns_verify_response went past its flags test: it did not stop at the
\* length or id test (-1) nor with a flags code (-2 .. -17).
PastFlags ==
    LET v == dns_verify_response(State) IN
    v.hung \/ v.ret >= 0 \/ v.ret \in {-18, -19}

\* C14: a response from the resolver gets past the flags test only with the
\* response bit set, opcode 0, TC clear, RA set, the three zero-area bits
\* clear and RCODE 0; mobile_dns_query_recv never returns 1 otherwise.
C14_FlagsGate ==
    (FromResolver /\ buffer_len >= DNS_HEADER_SIZE) =>
        /\ PastFlags =>
              /\ FlagQR = 1 /\ FlagOpcode = 0 /\ FlagTC = 0
              /\ FlagRA = 1 /\ FlagZ = 0 /\ FlagRCODE = 0
        /\ (FlagQR = 0 \/ FlagOpcode # 0 \/ FlagTC = 1 \/ FlagRA = 0
              \/ FlagZ # 0 \/ FlagRCODE # 0) => ret # 1

\* C14 happens: a response with the authoritative-answer bit set, which the
\* mask ignores, was accepted.
C14_Witness ==
    /\ FromResolver
    /\ buffer_len >= DNS_HEADER_SIZE
    /\ RecvFlags = 34176
    /\ PastFlags
    /\ ret = 1
    /\ ip = RData(1, 4)

\* What mobile_dns_query_recv returns for the datagram last received with
\* its RCODE replaced by rcode.
RetWithRcode(rcode) ==
    LET d2 == [dgram EXCEPT !.bytes = [@ EXCEPT ![4] = @ - FlagRCODE + rcode]] IN
    mobile_dns_query_recv(State, d2, NoIp).ret

\* C15: two responses from the resolver with the id of the query that
\* differ only in their non-zero RCODE make mobile_dns_query_recv report
\* different failures.
C15_RcodeDistinguished ==
    (FromResolver /\ buffer_len >= DNS_HEADER_SIZE
        /\ ~id_differs(State) /\ FlagRCODE # 0) =>
        \A other \in (1..15) \ {FlagRCODE} : RetWithRcode(other) # ret

\* The response last received declares one question and at least one
\* answer, echoes the question (name, type A, class IN), and the question
\* lies inside the received bytes.
QuestionValid ==
    /\ Sh.qd = 1
    /\ Sh.an >= 1
    /\ QName(Sh.qn, WireName(State)) = WireName(State)
    /\ Sh.qt = "A_IN"
    /\ DNS_HEADER_SIZE + name_len + DNS_QD_SIZE <= buffer_len

\* C16: dns_verify_response succeeds only for a response with qdcount 1,
\* ancount >= 1, the question name at offset 12 equal to the name sent and
\* followed inside the buffer by the query's QTYPE and class IN; a response
\* from the resolver with the query's id and accepted flags that lacks one
\* of these makes mobile_dns_query_recv return -1.
C16_QuestionGate ==
    FromResolver =>
        /\ LET v == dns_verify_response(State) IN
           (~v.hung /\ v.ret >= 0) =>
               /\ QuestionValid
               /\ v.ret = Sh.an
               /\ v.offset = DNS_HEADER_SIZE + name_len + DNS_QD_SIZE
        /\ ret = 1 => QuestionValid
        /\ (Sh.idd = 0 /\ FlagsAccepted /\ ~QuestionValid) => ret = -1

\* The walk over the literal labels of the wire name at p, without
\* following pointers: where the first pointer or the zero terminator is.
RECURSIVE NameWalk(_)
NameWalk(p) ==
    IF p >= buffer_len THEN [found |-> "none", pos |-> p]
    ELSE IF buffer[p] = 0 THEN [found |-> "zero", pos |-> p]
    ELSE IF buffer[p] >= 192 THEN [found |-> "pointer", pos |-> p]
    ELSE IF buffer[p] < 64 THEN NameWalk(p + buffer[p] + 1)
    ELSE [found |-> "none", pos |-> p]

\* dns_compare_name found the whole name at offset o: it returned 0 and
\* stored the end offset (the early returns of 0 leave *offset as it was).
FullMatch(c, o) == ~c.hung /\ c.ret = 0 /\ c.offset # o

\* C17: when dns_compare_name finds the name at offset o of the received
\* buffer, the end offset it stores is the position of the first pointer
\* of the name plus 2, or, without a pointer, the position of the zero
\* terminator plus 1; pointers followed later do not change it.
C17_EndAtFirstPointer ==
    Received =>
        \A o \in 0..(buffer_len - 1) :
            LET c == dns_compare_name(State, o)
                w == NameWalk(o)
            IN  FullMatch(c, o) =>
                    \/ w.found = "pointer" /\ c.offset = w.pos + 2
                    \/ w.found = "zero" /\ c.offset = w.pos + 1

\* C17 happens: the second record, whose name is a pointer to the first
\* record's pointer to the question, was scanned and accepted.
C17_Witness ==
    /\ HeaderAccepted
    /\ Sh = Shape(0, 33152, 1, 2, "echo", "A_IN",
                  <<Rec("ptr", 5, 1, 2), Rec("chain", 1, 1, 4)>>, 0)
    /\ FullMatch(dns_compare_name(State, RecStart(2)), RecStart(2))
    /\ NameWalk(RecStart(2)) = [found |-> "pointer", pos |-> RecStart(2)]
    /\ ret = 1
    /\ ip = RData(2, 4)

\* C18: dns_make_name fails exactly when a label of the host has more than
\* 63 bytes or the encoded name (the host's length plus 2) is larger than
\* MOBILE_DNS_MAX_NAME_SIZE; after a success name_len is at most
\* MOBILE_DNS_MAX_NAME_SIZE and the last byte written, the terminator, is
\* at index name_len - 1 of the name buffer.
C18_FailsExactlyWhenTooLong ==
    op = "make_name" =>
        /\ ret = 0 <=> (HasLongLabel(host)
                          \/ Len(host) + 2 > MOBILE_DNS_MAX_NAME_SIZE)
        /\ ret = 1 =>
              /\ name_len = Len(host) + 2
              /\ name_len <= MOBILE_DNS_MAX_NAME_SIZE
              /\ name_len - 1 \in DOMAIN name
              /\ name[name_len - 1] = 0

\* C18 happens: a host with a 63-byte label whose encoding has exactly
\* MOBILE_DNS_MAX_NAME_SIZE bytes was encoded.
C18_Witness ==
    /\ op = "make_name"
    /\ ret = 1
    /\ name_len = MOBILE_DNS_MAX_NAME_SIZE
    /\ name[0] = MaxLabel
    /\ name[MaxLabel + 1] = MOBILE_DNS_MAX_NAME_SIZE - MaxLabel - 3

\* The reads of the mobile_dns_query_recv call that took the last datagram.
RecvReads == mobile_dns_query_recv(State, dgram, NoIp).rd

\* C19: whatever datagram mobile_board_sock_recv delivers, every index of
\* state->buffer that mobile_dns_query_recv reads while parsing it is below
\* buffer_len, and every index of state->name read during the comparison
\* is below name_len.
C19_ReadsInBounds ==
    Received =>
        /\ RecvReads.b < buffer_len
        /\ RecvReads.n < name_len

\* C19 happens: a response was accepted after reads that reached the last
\* received byte (the end of the RDATA) and the terminator of the name.
C19_Witness ==
    /\ FromResolver
    /\ Sh = Shape(0, 33152, 1, 1, "echo", "A_IN", <<Rec("lit", 1, 1, 4)>>, 0)
    /\ RecvReads = [b |-> buffer_len - 1, n |-> name_len - 1]
    /\ ret = 1

\* C20: the address returned is the RDATA of a record only if
\* dns_compare_name found the whole query name as that record's owner
\* name; a record whose comparison stops early (a mismatch, an offset out
\* of range, a label byte with top bits 01 or 10) is never the accepted
\* one, also when the bytes at the cursor read as type A, class IN,
\* RDLENGTH 4.
C20_OnlyMatchingOwnerAccepted ==
    (FromResolver /\ ret = 1 /\ ip # NoIp) =>
        /\ \E k \in 1..Len(Sh.recs) : OwnerMatches(k) /\ ip = RData(k, 4)
        /\ \A k \in 1..Len(Sh.recs) :
              Sh.recs[k].nm \in {"bad", "badlen", "reserved", "infolike"}
              => ip # RData(k, Sh.recs[k].len)
        /\ \E o \in 0..(buffer_len - 1) :
              LET c == dns_compare_name(State, o) IN
              /\ FullMatch(c, o)
              /\ c.offset + DNS_RR_SIZE + 4 <= buffer_len
              /\ ip = Peek(buffer, c.offset + DNS_RR_SIZE, 4)

\* C20 happens: a record without the query name, whose first bytes read as
\* a type A, class IN, RDLENGTH 4 info block, was passed over and the
\* record after it, owned by the query name, was accepted.
C20_Witness ==
    /\ HeaderAccepted
    /\ Sh = Shape(0, 33152, 1, 2, "echo", "A_IN",
                  <<Rec("infolike", 1, 1, 4), GoodRec>>, 0)
    /\ dns_compare_name(State, RecStart(1)).ret = -1
    /\ Peek(buffer, RecStart(1), 4) = <<0, DNS_QTYPE_A, 0, 1>>
    /\ ret = 1
    /\ ip = RData(2, 4)

====
